---- MODULE Spec2Model ----
(***************************************************************************)
(* GuestLens dashboard front end.                                          *)
(*                                                                         *)
(* App (frontend/src/App.jsx) owns five pieces of React state, issues one  *)
(* listings fetch on mount and one assessment fetch each time the          *)
(* selectedListing value changes, and renders the assessment section from  *)
(* that state.  The presentational components (StatusCard, AspectsGrid,    *)
(* RiskDrivers, ActionBanner) are pure functions of their props and are    *)
(* modelled as operators; a JavaScript TypeError thrown while rendering is *)
(* the value Throw.                                                        *)
(***************************************************************************)
EXTENDS Integers, Sequences, FiniteSets, TLC

VARIABLES
    phase,            \* "constructed" (useState initial values) or "mounted"
    listings,         \* App.jsx:21  useState([])
    selectedListing,  \* App.jsx:22  useState('')
    assessment,       \* App.jsx:23  useState(null)
    loading,          \* App.jsx:24  useState(false)
    error,            \* App.jsx:25  useState(null)
    crashed,          \* a render of App threw: React unmounted the tree
    listingsFetch,    \* the GET /listings request: idle, pending or how it settled
    inflight,         \* the GET /listing/{id} requests that have not settled
    fetchLog,         \* history: identifiers of the assessment fetches, in issue order
    nSelects,         \* history: number of change events of the <select>
    ev,               \* history: the last event that App handled
    resp,             \* an assessment body handed to the display components
    view              \* what rendering the assessment section of resp produced

appVars == <<listings, selectedListing, assessment, loading, error>>
vars == <<phase, listings, selectedListing, assessment, loading, error, crashed,
          listingsFetch, inflight, fetchLog, nSelects, ev, resp, view>>

----------------------------------------------------------------------------
(* Bounds *)

MaxListings == 2      \* longest listings array the backend returns
MaxSelects == 3       \* change events of the <select> in one run
MaxAspects == 1       \* longest aspects array of an assessment body

(* Listing identifiers; the empty string is the "nothing selected" value. *)
IDs == {"A", "B"}

RECURSIVE SeqsUpTo(_)
SeqsUpTo(n) ==
    IF n = 0 THEN {<<>>}
    ELSE LET shorter == SeqsUpTo(n - 1)
         IN  shorter \cup {Append(s, i) : s \in {t \in shorter : Len(t) = n - 1}, i \in IDs}

----------------------------------------------------------------------------
(* JavaScript values *)

\* null, for the assessment state
NullAssessment == [listing |-> "", req |-> 0]
\* null, for the error state
NullError == "null"

\* A parsed JSON body of GET /listings: an array of identifiers, or a value
\* that is not an array (an object such as {"detail": "Not Found"}).
JsonArray(s) == [isArray |-> TRUE, items |-> s]
JsonObject == [isArray |-> FALSE, items |-> <<>>]

\* data.length > 0 : the length of an object is undefined, and undefined > 0 is false
HasElements(data) == data.isArray /\ Len(data.items) > 0

\* the body the backend returns for request number n of listing id
Body(id, n) == [listing |-> id, req |-> n]

\* messages of the errors the assessment promise chain can reject with
NotFoundMsg == "Listing not found"
NetworkMsg == "Failed to fetch"
JsonMsg == "Unexpected token < in JSON"
ListingsMsg == "Failed to load listings"

Event(op, id, req) == [op |-> op, id |-> id, req |-> req]

----------------------------------------------------------------------------
(* App: the assessment effect, App.jsx:41-60 *)

\* App.jsx:42  if (!selectedListing) return
EffectReturnsEarly(sel) == sel = ""

\* App.jsx:47  the request the effect issues for sel; req numbers the fetches
NewFetch(sel) == [id |-> sel, req |-> Len(fetchLog) + 1]

\* a variant of the effect that leaves a previous error in place
AssessmentEffectKeepsError(sel) ==
    IF EffectReturnsEarly(sel)
    THEN UNCHANGED <<loading, error, inflight, fetchLog>>
    ELSE /\ loading' = TRUE
         /\ error' = error
         /\ inflight' = inflight \cup {NewFetch(sel)}
         /\ fetchLog' = Append(fetchLog, sel)

\* App.jsx:41-47  one run of the effect with selectedListing = sel
AssessmentEffect(sel) ==
    IF EffectReturnsEarly(sel)
    THEN UNCHANGED <<loading, error, inflight, fetchLog>>
    ELSE /\ loading' = TRUE
         /\ error' = NullError
         /\ inflight' = inflight \cup {NewFetch(sel)}
         /\ fetchLog' = Append(fetchLog, sel)

\* a variant without the dependency array: the effect reruns after every render
EffectRerunsAlways(old, new) == TRUE

\* App.jsx:60  the dependency array [selectedListing]: React reruns the effect
\* after a render only when the value differs from the previous render's
EffectReruns(old, new) == old # new

\* the state change of setSelectedListing(new) followed by the effect
SetSelectedListing(new) ==
    /\ selectedListing' = new
    /\ IF EffectReruns(selectedListing, new)
       THEN AssessmentEffect(new)
       ELSE UNCHANGED <<loading, error, inflight, fetchLog>>

----------------------------------------------------------------------------
(* App: rendering, App.jsx:62-118 *)

\* part_000:19  listings.map(...) throws a TypeError when listings is not an array
ListingInputThrows(ls) == ~ls.isArray

\* App.jsx:76
LoadingShown == ~crashed /\ loading
\* App.jsx:77
ErrorShown == ~crashed /\ error # NullError
\* App.jsx:79  {assessment && !loading && ( ... )}
SectionCondition(a, l) == a # NullAssessment /\ ~l
SectionRendered == ~crashed /\ SectionCondition(assessment, loading)

\* part_000:19-23  the options the selector offers
Options == IF listings.isArray THEN {listings.items[i] : i \in 1..Len(listings.items)} ELSE {}

----------------------------------------------------------------------------
(* App: initial state and event handlers *)

\* The GET /listings request.  st is its position; once settled, net says a
\* response arrived (FALSE: fetch rejected), httpOk is res.ok, json says the
\* body parses as JSON, and body is the parsed value.
NoBody == JsonArray(<<>>)
IdleFetch == [st |-> "idle", net |-> FALSE, httpOk |-> FALSE, json |-> FALSE, body |-> NoBody]
PendingFetch == [IdleFetch EXCEPT !.st = "pending"]
NetworkError == [IdleFetch EXCEPT !.st = "settled"]
Response(httpOk, json, body) ==
    [st |-> "settled", net |-> TRUE, httpOk |-> httpOk, json |-> json, body |-> body]

----------------------------------------------------------------------------
(* The display components.  A JavaScript object is a function on the names *)
(* of the properties it has; a property it lacks reads as undefined.       *)
(* Numbers are integers: risk_score and counts as they are, confidence in  *)
(* ten-thousandths, sentiment in thousandths.  Strings that the code takes *)
(* apart (aspect names) are sequences of characters.  The glyphs that      *)
(* prefix the fixed texts are left out of the strings, and the trend       *)
(* arrows are written "^ " and "v ".                                       *)

Has(o, k) == k \in DOMAIN o

\* {value} in JSX: undefined renders nothing
TextOf(o, k) == IF Has(o, k) THEN o[k] ELSE ""
NumberTextOf(o, k) == IF Has(o, k) THEN ToString(o[k]) ELSE ""
\* `${value}` in a template literal: undefined prints as "undefined"
InterpolatedOf(o, k) == IF Has(o, k) THEN o[k] ELSE "undefined"

\* the result of a render that threw a TypeError
Throw == [threw |-> TRUE]
\* nothing rendered yet
NoView == [threw |-> FALSE, shown |-> FALSE]

\* String.prototype.toLowerCase on the risk labels
ToLowerCase(str) ==
    CASE str = "High" -> "high"
      [] str = "HIGH" -> "high"
      [] str = "Medium" -> "medium"
      [] str = "Low" -> "low"
      [] OTHER -> str

\* Math.round(confidence * 100), confidence given in ten-thousandths
RoundPercent(c) == (c + 50) \div 100

\* StatusCard.jsx:13-51
StatusCard(a) ==
    IF ~Has(a, "overall_risk")
    THEN Throw                       \* :15  undefined.toLowerCase()
    ELSE [threw |-> FALSE,
          cardClass |-> "status-card risk-" \o ToLowerCase(a.overall_risk),
          riskClass |-> "metric-value " \o ToLowerCase(a.overall_risk),
          risk |-> a.overall_risk,
          riskScore |-> NumberTextOf(a, "risk_score") \o "/100",
          confidence |-> (IF Has(a, "confidence")
                          THEN ToString(RoundPercent(a.confidence)) ELSE "NaN") \o "%",
          trustClass |-> IF Has(a, "rating_trust") /\ TextOf(a, "rating_trust") = "Reliable"
                         THEN "metric-value low" ELSE "metric-value high",
          ratingTrust |-> TextOf(a, "rating_trust")]

\* String.prototype.replace('_', ' '): only the first occurrence
RECURSIVE ReplaceFirstUnderscore(_)
ReplaceFirstUnderscore(chars) ==
    IF chars = <<>> THEN <<>>
    ELSE IF Head(chars) = "_" THEN <<" ">> \o Tail(chars)
    ELSE <<Head(chars)>> \o ReplaceFirstUnderscore(Tail(chars))

\* Number.prototype.toFixed(2), the number given in thousandths
ToFixed2(m) ==
    LET abs == IF m < 0 THEN -m ELSE m
        h == (abs + 5) \div 10
        frac == h % 100
    IN  (IF m < 0 THEN "-" ELSE "") \o ToString(h \div 100) \o "."
          \o (IF frac < 10 THEN "0" ELSE "") \o ToString(frac)

\* AspectsGrid.jsx:13-46
AspectCard(aspect) ==
    IF ~Has(aspect, "name") THEN Throw             \* :19  undefined.replace()
    ELSE IF ~Has(aspect, "sentiment") THEN Throw   \* :23  undefined.toFixed()
    ELSE [threw |-> FALSE,
          title |-> ReplaceFirstUnderscore(aspect.name),
          sentiment |-> TextOf(aspect, "sentiment_label") \o " ("
                          \o ToFixed2(aspect.sentiment) \o ")",
          trendClass |-> "trend-" \o InterpolatedOf(aspect, "trend"),
          trend |-> (IF Has(aspect, "trend") /\ TextOf(aspect, "trend") = "improving" THEN "^ "
                     ELSE IF Has(aspect, "trend") /\ TextOf(aspect, "trend") = "declining" THEN "v "
                     ELSE "") \o TextOf(aspect, "trend"),
          consistency |-> TextOf(aspect, "variance_label"),
          mentions |-> NumberTextOf(aspect, "mention_count")]

\* AspectsGrid.jsx:48-56
AspectsGrid(a) ==
    IF ~Has(a, "aspects") THEN Throw               \* :51  undefined.map()
    ELSE IF \E i \in 1..Len(a.aspects) : AspectCard(a.aspects[i]).threw THEN Throw
    ELSE [threw |-> FALSE,
          cards |-> [i \in 1..Len(a.aspects) |-> AspectCard(a.aspects[i])]]

\* ActionBanner.jsx:57-73
RiskDrivers(a) ==
    IF ~Has(a, "risk_drivers") THEN Throw          \* :62  undefined.length
    ELSE [threw |-> FALSE,
          message |-> IF Len(a.risk_drivers) = 0
                      THEN "No significant risk factors detected" ELSE "",
          items |-> a.risk_drivers]

\* ActionBanner.jsx:17-30  the own properties of actionConfig
ActionConfig ==
    [flag |-> [className |-> "action-flag", text |-> "ACTION REQUIRED: Flag this listing for review"],
     monitor |-> [className |-> "action-monitor", text |-> "Keep monitoring this listing"],
     ignore |-> [className |-> "action-ignore", text |-> "No action needed"]]

\* the properties every object literal inherits from Object.prototype; each
\* is a function (or, for __proto__, an object): truthy, and without
\* className or text
ObjectPrototypeKeys ==
    {"constructor", "toString", "toLocaleString", "valueOf", "hasOwnProperty",
     "isPrototypeOf", "propertyIsEnumerable", "__proto__"}
InheritedValue == [inherited |-> TRUE]

\* ActionBanner.jsx:32  actionConfig[action] || actionConfig.ignore ; the
\* key of an undefined action is the string "undefined"
ConfigFor(action) ==
    IF action \in DOMAIN ActionConfig THEN ActionConfig[action]
    ELSE IF action \in ObjectPrototypeKeys THEN InheritedValue
    ELSE ActionConfig.ignore

\* ActionBanner.jsx:15-39
ActionBanner(action) ==
    LET config == ConfigFor(action)
    IN  [className |-> "action-banner " \o InterpolatedOf(config, "className"),
         text |-> TextOf(config, "text")]

\* App.jsx:108  the action prop, as the property key it is used as
ActionProp(a) == InterpolatedOf(a, "recommended_action")

\* App.jsx:111-114  the date is formatted by the locale; an undefined date
\* formats as "Invalid Date"
Footer(a) ==
    [reviews |-> NumberTextOf(a, "review_count") \o " reviews analyzed",
     date |-> IF Has(a, "assessment_date") THEN a.assessment_date ELSE "Invalid Date"]

\* App.jsx:79-116  the assessment section for the stored assessment a; an
\* exception in any child aborts the whole render
RenderSection(a) ==
    IF StatusCard(a).threw \/ AspectsGrid(a).threw \/ RiskDrivers(a).threw
    THEN [threw |-> TRUE, shown |-> TRUE]
    ELSE [threw |-> FALSE, shown |-> TRUE,
          status |-> StatusCard(a),
          aspects |-> AspectsGrid(a),
          drivers |-> RiskDrivers(a),
          banner |-> ActionBanner(ActionProp(a)),
          footer |-> Footer(a)]

\* the example assessment of the specification
SampleAspect ==
    [name |-> <<"w", "i", "f", "i", "_", "s", "p", "e", "e", "d">>, sentiment |-> -420,
     sentiment_label |-> "Negative", trend |-> "declining",
     variance_label |-> "High variance", mention_count |-> 14]
SampleAssessment ==
    [overall_risk |-> "High", risk_score |-> 72, confidence |-> 5000,
     rating_trust |-> "Unreliable", aspects |-> <<SampleAspect>>,
     risk_drivers |-> <<"Noise complaints">>, recommended_action |-> "flag",
     review_count |-> 120, assessment_date |-> "2024-01-15"]

\* an object without the properties in the set missing
Without(o, missing) == [k \in DOMAIN o \ missing |-> o[k]]

\* App.jsx:21-25
Init ==
    /\ phase = "constructed"
    /\ listings = JsonArray(<<>>)
    /\ selectedListing = ""
    /\ assessment = NullAssessment
    /\ loading = FALSE
    /\ error = NullError
    /\ crashed = FALSE
    /\ listingsFetch = IdleFetch
    /\ inflight = {}
    /\ fetchLog = <<>>
    /\ nSelects = 0
    /\ ev = Event("Construct", "", 0)
    /\ resp = SampleAssessment
    /\ view = NoView

\* App.jsx:28-29 and 41-42  first commit: both effects run, selectedListing is ''
Mount ==
    /\ phase = "constructed"
    /\ phase' = "mounted"
    /\ listingsFetch' = PendingFetch
    /\ SetSelectedListing(selectedListing)
    /\ ev' = Event("Mount", "", 0)
    /\ UNCHANGED <<listings, assessment, crashed, nSelects, resp, view>>

\* a variant that selects the last identifier of the response
LastListing(data) == data.items[Len(data.items)]

\* App.jsx:34  setSelectedListing(data[0])
FirstListing(data) == data.items[1]

\* App.jsx:30-36  res.json() resolved with r.body; res.ok is never consulted.
\* A body that is not an array is stored by setListings and the next render
\* throws in ListingInput; the commit never happens, so no effect runs.
ListingsParsed(r) ==
    /\ listingsFetch = PendingFetch
    /\ r.net /\ r.json
    /\ listingsFetch' = r
    /\ listings' = r.body
    /\ IF ListingInputThrows(r.body)
       THEN /\ crashed' = TRUE
            /\ UNCHANGED <<selectedListing, loading, error, inflight, fetchLog>>
       ELSE /\ crashed' = FALSE
            /\ SetSelectedListing(IF HasElements(r.body) THEN FirstListing(r.body)
                                                         ELSE selectedListing)
    /\ ev' = Event("ListingsParsed", "", 0)
    /\ UNCHANGED <<phase, assessment, nSelects, resp, view>>

\* App.jsx:37  fetch rejected (network error) or res.json() rejected (the
\* body is not JSON, whatever the HTTP status)
ListingsRejected(r) ==
    /\ listingsFetch = PendingFetch
    /\ ~(r.net /\ r.json)
    /\ listingsFetch' = r
    /\ error' = ListingsMsg
    /\ ev' = Event("ListingsRejected", "", 0)
    /\ UNCHANGED <<phase, listings, selectedListing, assessment, loading, crashed,
                   inflight, fetchLog, nSelects, resp, view>>

\* the ways the backend can answer GET /listings
ListingsBodies == {JsonArray(s) : s \in SeqsUpTo(MaxListings)} \cup {JsonObject}
ListingsResponses ==
    {NetworkError}
      \cup {Response(ok, FALSE, NoBody) : ok \in BOOLEAN}
      \cup {Response(ok, TRUE, b) : ok \in BOOLEAN, b \in ListingsBodies}

\* part_000:17 and App.jsx:73  a change event of the <select> with value id
\* (one of the offered options).  Choosing the value that is already selected
\* either fires no event or calls setSelectedListing with the current value;
\* React then keeps the state and does not rerun the effect.
Select(id) ==
    /\ phase = "mounted"
    /\ ~crashed
    /\ id \in Options
    /\ nSelects < MaxSelects
    /\ nSelects' = nSelects + 1
    /\ SetSelectedListing(id)
    /\ ev' = Event("Select", id, 0)
    /\ UNCHANGED <<phase, listings, assessment, crashed, listingsFetch, resp, view>>

\* a variant of the success handler that forgets setLoading(false)
AssessmentResolvedStillLoading(f) ==
    /\ f \in inflight
    /\ inflight' = inflight \ {f}
    /\ assessment' = Body(f.id, f.req)
    /\ ev' = Event("AssessmentResolved", f.id, f.req)
    /\ UNCHANGED <<phase, listings, selectedListing, loading, error, crashed,
                   listingsFetch, fetchLog, nSelects, resp, view>>

\* App.jsx:48-55  the response is ok and its body parses: store it, clear loading
AssessmentResolved(f) ==
    /\ f \in inflight
    /\ inflight' = inflight \ {f}
    /\ assessment' = Body(f.id, f.req)
    /\ loading' = FALSE
    /\ ev' = Event("AssessmentResolved", f.id, f.req)
    /\ UNCHANGED <<phase, listings, selectedListing, error, crashed, listingsFetch,
                   fetchLog, nSelects, resp, view>>

\* a variant of the catch handler that forgets setLoading(false)
CatchHandlerStillLoading(msg) ==
    /\ error' = msg
    /\ loading' = loading

\* App.jsx:56-59  the catch handler
CatchHandler(msg) ==
    /\ error' = msg
    /\ loading' = FALSE

\* App.jsx:49  the response status is not ok
AssessmentNotOk(f) ==
    /\ f \in inflight
    /\ inflight' = inflight \ {f}
    /\ CatchHandler(NotFoundMsg)
    /\ ev' = Event("AssessmentNotOk", f.id, f.req)
    /\ UNCHANGED <<phase, listings, selectedListing, assessment, crashed, listingsFetch,
                   fetchLog, nSelects, resp, view>>

\* App.jsx:47 and 50  fetch rejected, or res.json() rejected: err.message is shown
AssessmentRejected(f, msg) ==
    /\ f \in inflight
    /\ inflight' = inflight \ {f}
    /\ CatchHandler(msg)
    /\ ev' = Event("AssessmentRejected", f.id, f.req)
    /\ UNCHANGED <<phase, listings, selectedListing, assessment, crashed, listingsFetch,
                   fetchLog, nSelects, resp, view>>

Next ==
    \/ Mount
    \/ \E r \in ListingsResponses : ListingsParsed(r)
    \/ \E r \in ListingsResponses : ListingsRejected(r)
    \/ \E id \in IDs : Select(id)
    \/ \E f \in inflight : AssessmentResolved(f)
    \/ \E f \in inflight : AssessmentNotOk(f)
    \/ \E f \in inflight, msg \in {NetworkMsg, JsonMsg} : AssessmentRejected(f, msg)

Spec == Init /\ [][Next]_vars

\* Every issued request eventually settles (the browser answers or fails it).
Settle ==
    \E f \in inflight :
        \/ AssessmentResolved(f)
        \/ AssessmentNotOk(f)
        \/ \E msg \in {NetworkMsg, JsonMsg} : AssessmentRejected(f, msg)

SpecLive == Init /\ [][Next]_vars /\ WF_vars(Settle)

----------------------------------------------------------------------------
(* Properties of App *)

\* the listings request settled with an ok status and a JSON array body
ListingsSucceeded ==
    /\ listingsFetch.st = "settled"
    /\ listingsFetch.net /\ listingsFetch.httpOk /\ listingsFetch.json
    /\ listingsFetch.body.isArray

\* the listings request settled in any other way
ListingsFailed == listingsFetch.st = "settled" /\ ~ListingsSucceeded

\* the last event was the settling of request ev.req, for the listing selected now
SettledForSelection(op) == ev.op = op /\ ev.id = selectedListing

\* C1: the assessment section is rendered only if an assessment is stored and
\* no assessment fetch is in flight.
C1_SectionOnlyWithoutFetchInFlight ==
    SectionRendered => (assessment # NullAssessment /\ inflight = {})

\* C2: once the listings fetch has succeeded with an array, listings is that
\* array; if it is non-empty its first identifier was selected and fetched
\* first, and nothing else is fetched until the user changes the selection;
\* if it is empty nothing is selected and nothing is fetched.
C2_ListingsSuccess ==
    ListingsSucceeded =>
        /\ listings = listingsFetch.body
        /\ IF Len(listingsFetch.body.items) > 0
           THEN /\ fetchLog # <<>>
                /\ fetchLog[1] = listingsFetch.body.items[1]
                /\ Len(fetchLog) <= 1 + nSelects
                /\ nSelects = 0 =>
                       /\ selectedListing = listingsFetch.body.items[1]
                       /\ fetchLog = <<listingsFetch.body.items[1]>>
           ELSE /\ selectedListing = ""
                /\ fetchLog = <<>>
                /\ inflight = {}

C2_Witness ==
    /\ ListingsSucceeded
    /\ Len(listings.items) = 2
    /\ listings.items[1] # listings.items[2]
    /\ nSelects = 0
    /\ selectedListing = listings.items[1]
    /\ inflight = {[id |-> listings.items[1], req |-> 1]}

\* C3: any failure of the listings fetch (network error, non-success status,
\* or a body that is not a JSON array) leaves the fixed error message, empty
\* listings, no selection and no assessment fetch.
C3_ListingsFailure ==
    ListingsFailed =>
        /\ error = ListingsMsg
        /\ listings = JsonArray(<<>>)
        /\ selectedListing = ""
        /\ fetchLog = <<>>

C5_EverySelectionFetches ==
    [][nSelects' # nSelects =>
          /\ fetchLog' = Append(fetchLog, selectedListing')
          /\ \E f \in inflight' \ inflight : f.id = selectedListing']_vars

\* C5 amended: a change event issues an assessment fetch exactly when it
\* changes the selected identifier; choosing the identifier that is already
\* selected issues no fetch and leaves loading, error and assessment as they
\* were, also after an error.
C5_SelectionFetchesOnChange ==
    [][nSelects' # nSelects =>
          IF selectedListing' # selectedListing
          THEN /\ fetchLog' = Append(fetchLog, selectedListing')
               /\ inflight' = inflight \cup {[id |-> selectedListing', req |-> Len(fetchLog')]}
               /\ inflight' # inflight
          ELSE UNCHANGED <<appVars, inflight, fetchLog>>]_vars

\* the selected identifier was chosen again after its fetch had failed, and
\* the error is still there with nothing in flight
C5_Witness ==
    /\ ev.op = "Select" /\ ev.id = selectedListing
    /\ error # NullError
    /\ ~loading
    /\ inflight = {}
    /\ fetchLog # <<>>

\* C8: when nothing is in flight and the section is rendered, the stored
\* assessment is the response to the latest fetch, the one issued for the
\* identifier selected now.
C8_AssessmentOfSelection ==
    (inflight = {} /\ SectionRendered) =>
        /\ assessment.listing = selectedListing
        /\ assessment.req = Len(fetchLog)

\* C9: when the selected identifier changes to a non-empty value, loading
\* becomes true, error becomes null, assessment stays (and listings stays,
\* unless the same handler has just stored them) and exactly one fetch, for
\* the new identifier, is issued; when the effect runs with the empty
\* identifier (at mount) the state stays and no fetch is issued.
C9_EffectFrame ==
    [][(selectedListing' # selectedListing \/ phase' # phase) =>
          IF selectedListing' = ""
          THEN UNCHANGED <<appVars, inflight, fetchLog>>
          ELSE /\ loading' = TRUE
               /\ error' = NullError
               /\ assessment' = assessment
               /\ listings' = (IF nSelects' # nSelects THEN listings ELSE listingsFetch'.body)
               /\ inflight' = inflight \cup {[id |-> selectedListing', req |-> Len(fetchLog) + 1]}
               /\ Cardinality(inflight') = Cardinality(inflight) + 1
               /\ fetchLog' = Append(fetchLog, selectedListing')]_vars

\* a selection change that found an assessment stored and another fetch pending
C9_Witness ==
    /\ ev.op = "Select"
    /\ loading /\ error = NullError
    /\ assessment # NullAssessment
    /\ Cardinality(inflight) = 2
    /\ \E f \in inflight : f.id = selectedListing /\ f.req = Len(fetchLog)

\* loading is off and there is something to show
Quiescent == ~loading /\ (assessment # NullAssessment \/ error # NullError)

\* C10: every settling of an assessment fetch clears loading; a success
\* stores exactly the response body, a failure stores the error message and
\* keeps the assessment; no fetch is issued by a settling.  Hence, once a
\* fetch has been issued, App eventually stays in a state with loading off
\* and an assessment or an error present.
C10_SettlingClearsLoading ==
    /\ [][(inflight' # inflight /\ inflight' \subseteq inflight) =>
             LET f == CHOOSE g \in inflight : g \notin inflight'
             IN  /\ inflight' = inflight \ {f}
                 /\ ~loading'
                 /\ fetchLog' = fetchLog
                 /\ \/ assessment' = Body(f.id, f.req) /\ error' = error
                    \/ /\ assessment' = assessment
                       /\ error' \in {NotFoundMsg, NetworkMsg, JsonMsg}]_vars
    /\ <>[](fetchLog # <<>> => Quiescent)

\* the last fetch failed after an earlier one had succeeded, nothing is left
C10_Witness ==
    /\ inflight = {}
    /\ Len(fetchLog) >= 2
    /\ ev.op \in {"AssessmentNotOk", "AssessmentRejected", "AssessmentResolved"}
    /\ Quiescent
    /\ assessment # NullAssessment /\ error # NullError

----------------------------------------------------------------------------
(* Rendering assessment bodies of every shape *)

OtherAspect ==
    [name |-> <<"c", "h", "e", "c", "k", "_", "i", "n", "_", "x">>, sentiment |-> 1005,
     sentiment_label |-> "Positive", trend |-> "improving",
     variance_label |-> "Consistent", mention_count |-> 3]

AspectShapes ==
    {SampleAspect, OtherAspect,
     Without(SampleAspect, {"name"}),
     Without(SampleAspect, {"sentiment"}),
     Without(SampleAspect, {"sentiment_label", "trend", "variance_label", "mention_count"})}

RECURSIVE AspectLists(_)
AspectLists(n) ==
    IF n = 0 THEN {<<>>}
    ELSE LET shorter == AspectLists(n - 1)
         IN  shorter \cup {Append(l, x) : l \in {t \in shorter : Len(t) = n - 1},
                                          x \in AspectShapes}

ActionValues ==
    {"flag", "monitor", "ignore", "FLAG", "", "escalate", "constructor", "toString", "__proto__"}

\* the properties whose absence the components dereference, and the others
DereferencedFields == {"overall_risk", "aspects", "risk_drivers"}
PrintedFields ==
    {"risk_score", "confidence", "rating_trust", "recommended_action", "review_count",
     "assessment_date"}
MissingSets ==
    {d \cup o : d \in SUBSET DereferencedFields,
                o \in {{}, PrintedFields} \cup {{f} : f \in PrintedFields}}

AssessmentBodies ==
    {Without([SampleAssessment EXCEPT !.overall_risk = r, !.aspects = l,
                                      !.recommended_action = act], m) :
        r \in {"High", "low"}, l \in AspectLists(MaxAspects), act \in ActionValues,
        m \in MissingSets}

InitRender ==
    /\ phase = "mounted"
    /\ listings = JsonArray(<<"A">>)
    /\ selectedListing = "A"
    /\ assessment = Body("A", 1)
    /\ loading = FALSE
    /\ error = NullError
    /\ crashed = FALSE
    /\ listingsFetch = Response(TRUE, TRUE, JsonArray(<<"A">>))
    /\ inflight = {}
    /\ fetchLog = <<"A">>
    /\ nSelects = 0
    /\ ev = Event("AssessmentResolved", "A", 1)
    /\ resp \in AssessmentBodies
    /\ view = NoView

\* App.jsx:79-116  App renders the section for the assessment it has stored
RenderAssessment ==
    /\ SectionCondition(assessment, loading)
    /\ view = NoView
    /\ view' = RenderSection(resp)
    /\ crashed' = view'.threw
    /\ UNCHANGED <<phase, listings, selectedListing, assessment, loading, error,
                   listingsFetch, inflight, fetchLog, nSelects, ev, resp>>

NextRender == RenderAssessment

SpecRender == InitRender /\ [][NextRender]_vars

\* the presentation ActionBanner is specified to give for an action value
IgnorePresentation == [className |-> "action-banner action-ignore", text |-> "No action needed"]
SpecifiedBanner(action) ==
    IF action \in {"flag", "monitor", "ignore"}
    THEN [className |-> "action-banner " \o ActionConfig[action].className,
          text |-> ActionConfig[action].text]
    ELSE IgnorePresentation

\* C6: ActionBanner yields the presentation of the key for flag, monitor and
\* ignore and exactly the ignore presentation for every other action value,
\* names of inherited object properties included.
C6_BannerTotal ==
    (view.shown /\ ~view.threw) => view.banner = SpecifiedBanner(ActionProp(resp))

\* C7: rendering the section of an assessment body that lacks fields
\* completes; no missing field makes the render throw.
C7_MissingFieldsRender ==
    view.shown => ~view.threw

====
